---------------------------- MODULE Spec2Model ----------------------------
(***************************************************************************)
(* A model of vw::platefile::RemoteIndex (src/vw/Plate/RemoteIndex.cc):    *)
(* the client-side write queue, the RPCs each public operation sends to    *)
(* the index service, and the address parser parse_url.                    *)
(*                                                                         *)
(* Strings that the code inspects character by character (URLs) are        *)
(* sequences of one-character strings.                                     *)
(***************************************************************************)
EXTENDS Integers, Sequences, FiniteSets, TLC

VARIABLES
  m_platefile_id,   \* RemoteIndex::m_platefile_id
  m_write_queue,    \* RemoteIndex::m_write_queue (std::queue<IndexWriteUpdate>)
  alive,            \* FALSE once ~RemoteIndex has run
  call,             \* the call that ran last: its name and the RPCs it sent, in order
  written,          \* every IndexWriteUpdate built by write_update, in call order
  delivered,        \* every update the service received in MultiWriteUpdate batches
  url,              \* the argument of parse_url
  parsed,           \* what parse_url did with it
  m_index_header,          \* RemoteIndex::m_index_header
  m_short_plate_filename,  \* RemoteIndex::m_short_plate_filename
  m_full_plate_filename,   \* RemoteIndex::m_full_plate_filename
  transport,        \* what the constructor set up: connection, RPC client, bound queue
  result,           \* what the call that ran last returned to its caller
  transactions,     \* the service's state of each transaction id
  cursor,           \* the service's read cursor
  lost,             \* the batches whose MultiWriteUpdate failed, in order
  threads,          \* where each thread that shares the instance is in its call
  mutex             \* the callers' external mutex: whether they use it, and who holds it

\* What the constructors set and every later call only reads.
session_vars == <<m_index_header, m_short_plate_filename, m_full_plate_filename, transport>>

\* The service's side of a call: its transaction state and what came back.
reply_vars == <<result, transactions, cursor>>

\* What only the calls that fail, and the calls of several threads, change.
fault_vars == <<lost>>

thread_vars == <<threads, mutex>>

vars == <<m_platefile_id, m_write_queue, alive, call, written, delivered, url, parsed,
          session_vars, reply_vars, fault_vars, thread_vars>>

index_vars == <<m_platefile_id, m_write_queue, alive, call, written, delivered,
                session_vars, reply_vars, fault_vars, thread_vars>>

url_vars == <<url, parsed>>

(***************************************************************************)
(* Bounds of the model and the small sets the inputs are drawn from.       *)
(***************************************************************************)
MaxWrites == 12

PlatefileIds == {1, 2}

Cols == {0, 1}

Levels == {0, 1}

TransactionIds == {1, 2}

Regions == {[col |-> 0, row |-> 0, width |-> 2, height |-> 2]}

Sizes == {64}

BlobIds == {0, 1}

BlobOffsets == {0}

Descriptions == {"mosaic"}

Records == {[blob_id |-> 0, blob_offset |-> 0]}

\* The caller writes a fresh tile with every write_update, so that every
\* update in flight is distinguishable from every other.
NextHeaders == {[col |-> Len(written) + 1, row |-> 0, level |-> 0]}

\* URLs handed to parse_url: a prefix followed by any text of up to MaxRest
\* characters over Alphabet (separators, a letter, a digit).
MaxRest == 6

Alphabet == {"/", ":", "a", "7"}

Scheme == <<"p", "f", ":", "/", "/">>

Prefixes == {<<>>, Scheme, <<"x">> \o Scheme}

Rests == UNION {[1..n -> Alphabet] : n \in 0..MaxRest}

Urls == {p \o r : p \in Prefixes, r \in Rests}

(***************************************************************************)
(* Program constants.                                                      *)
(***************************************************************************)
max_pending_write_updates == 10

default_port == 5672

localhost == <<"l", "o", "c", "a", "l", "h", "o", "s", "t">>

(***************************************************************************)
(* The session: the index header the service reports and what a            *)
(* constructor sets up before it talks to the service.                     *)
(***************************************************************************)
FileTypes == {"png", "tif"}

\* The fields of IndexHeader that RemoteIndex reads.
IndexHeader(pid, filetype) ==
  [platefile_id |-> pid, version |-> 1, tile_size |-> 256, tile_filetype |-> filetype,
   pixel_format |-> "RGBA", channel_type |-> "UINT8"]

ServiceHeader(pid, filetype) == IndexHeader(pid, filetype)

\* A default-constructed IndexHeader and empty names: members not yet assigned.
NoHeader == IndexHeader(0, "")

\* AmqpRpcClient::UniqueQueueName("remote_index_" + platefile_name)
UniqueQueueName(platefile_name) == <<"remote_index_", platefile_name, "unique">>

\* The connection, RPC client, stub and bound reply queue of lines 85-88.
Established(hostname, port, routing_key, platefile_name) ==
  LET queue_name == UniqueQueueName(platefile_name) IN
  <<[what |-> "AmqpConnection", hostname |-> hostname, port |-> port],
    [what |-> "AmqpRpcClient", exchange |-> "INDEX_EXCHANGE",
     queue_name |-> queue_name, routing_key |-> routing_key],
    [what |-> "IndexService::Stub"],
    [what |-> "bind_service", queue_name |-> queue_name]>>

\* Before a constructor has run.
Unconstructed ==
  /\ m_index_header = NoHeader
  /\ m_short_plate_filename = ""
  /\ m_full_plate_filename = ""
  /\ transport = <<>>

NoResult == [of |-> "none"]

\* The threads that share one instance.
Threads == {1, 2}

\* A thread outside any call.
Idle == [pc |-> "idle", op |-> "none", pushed |-> <<>>, request |-> <<>>, rpcs |-> <<>>,
         behind |-> {}]

\* No RPC has failed, and one caller at a time uses the instance.
SingleCaller ==
  /\ lost = <<>>
  /\ threads = [t \in Threads |-> Idle]
  /\ mutex = [used |-> FALSE, holder |-> 0]

(***************************************************************************)
(* The request messages, as the handlers fill them in.                     *)
(***************************************************************************)
Rpc(method, request) == [method |-> method, request |-> request]

\* Mutant of IndexWriteUpdate: the platefile id is left at its default.
IndexWriteUpdate_unstamped(pid, header, record) ==
  [platefile_id |-> 0, header |-> header, record |-> record]

IndexWriteUpdate(pid, header, record) ==
  [platefile_id |-> pid, header |-> header, record |-> record]

NoCall == [op |-> "none", rpcs |-> <<>>]

NotParsed == [threw |-> "not called", assigned |-> {}, hostname |-> <<>>, port |-> 0,
              exchange |-> <<>>, platefile_name |-> <<>>]

\* The updates carried by the MultiWriteUpdate batches among rpcs, in order.
RECURSIVE BatchUpdates(_)
BatchUpdates(rpcs) ==
  IF rpcs = <<>> THEN <<>>
  ELSE (IF Head(rpcs).method = "MultiWriteUpdate"
          THEN Head(rpcs).request.write_updates
          ELSE <<>>) \o BatchUpdates(Tail(rpcs))

(***************************************************************************)
(* flush_write_queue: move the queue, front first, into one                *)
(* IndexMultiWriteUpdate and send it.  The send is unconditional.          *)
(***************************************************************************)
\* Mutant of DrainQueue: the batch is filled back to front.
RECURSIVE DrainQueue_lifo(_, _)
DrainQueue_lifo(queue, batch) ==
  IF Len(queue) > 0
    THEN DrainQueue_lifo(Tail(queue), <<Head(queue)>> \o batch)
    ELSE [queue |-> queue, batch |-> batch]

RECURSIVE DrainQueue(_, _)
DrainQueue(queue, batch) ==
  IF Len(queue) > 0
    THEN DrainQueue(Tail(queue), Append(batch, Head(queue)))
    ELSE [queue |-> queue, batch |-> batch]

\* Mutant of flush_write_queue: one MultiWriteUpdate per queued update.
flush_write_queue_one_rpc_each(queue) ==
  [queue |-> <<>>,
   rpcs  |-> [i \in 1..Len(queue) |->
                Rpc("MultiWriteUpdate", [write_updates |-> <<queue[i]>>])]]

flush_write_queue(queue) ==
  LET d == DrainQueue(queue, <<>>) IN
  [queue |-> d.queue,
   rpcs  |-> <<Rpc("MultiWriteUpdate", [write_updates |-> d.batch])>>]

\* The bookkeeping every call shares: the queue it leaves, the RPCs it sent
\* (the service receives the batches among them), and what it never touches.
Sends(op, queue, rpcs) ==
  /\ m_write_queue' = queue
  /\ call' = [op |-> op, rpcs |-> rpcs]
  /\ delivered' = delivered \o BatchUpdates(rpcs)
  /\ UNCHANGED <<m_platefile_id, url_vars, session_vars, fault_vars, thread_vars>>

\* Mutant of read_request: the flush is missing.
read_request_unflushed(col, row, level, transaction_id, exact_transaction_match) ==
  LET own == Rpc("ReadRequest",
             [platefile_id |-> m_platefile_id, col |-> col, row |-> row, level |-> level,
              transaction_id |-> transaction_id,
              exact_transaction_match |-> exact_transaction_match])
  IN
  /\ alive
  /\ Sends("read_request", m_write_queue, <<own>>)
  /\ UNCHANGED <<alive, written>>

read_request(col, row, level, transaction_id, exact_transaction_match) ==
  LET f   == flush_write_queue(m_write_queue)
      own == Rpc("ReadRequest",
             [platefile_id |-> m_platefile_id, col |-> col, row |-> row, level |-> level,
              transaction_id |-> transaction_id,
              exact_transaction_match |-> exact_transaction_match])
  IN
  /\ alive
  /\ Sends("read_request", f.queue, f.rpcs \o <<own>>)
  /\ UNCHANGED <<alive, written>>

multi_read_request(col, row, level, begin_transaction_id, end_transaction_id) ==
  LET f   == flush_write_queue(m_write_queue)
      own == Rpc("MultiReadRequest",
             [platefile_id |-> m_platefile_id, col |-> col, row |-> row, level |-> level,
              begin_transaction_id |-> begin_transaction_id,
              end_transaction_id |-> end_transaction_id])
  IN
  /\ alive
  /\ Sends("multi_read_request", f.queue, f.rpcs \o <<own>>)
  /\ UNCHANGED <<alive, written>>

\* Mutant of write_request: it flushes first, like the reads.
write_request_flushing(size) ==
  LET f   == flush_write_queue(m_write_queue)
      own == Rpc("WriteRequest", [platefile_id |-> m_platefile_id, size |-> size])
  IN
  /\ alive
  /\ Sends("write_request", f.queue, f.rpcs \o <<own>>)
  /\ UNCHANGED <<alive, written>>

\* write_request sends its request and nothing else.
write_request(size) ==
  LET own == Rpc("WriteRequest", [platefile_id |-> m_platefile_id, size |-> size])
  IN
  /\ alive
  /\ Sends("write_request", m_write_queue, <<own>>)
  /\ UNCHANGED <<alive, written>>

\* Mutant of write_update: the threshold test is > where the code has >=.
write_update_off_by_one(header, record) ==
  LET request == IndexWriteUpdate(m_platefile_id, header, record)
      pushed  == Append(m_write_queue, request)
      f       == IF Len(pushed) > max_pending_write_updates
                   THEN flush_write_queue(pushed)
                   ELSE [queue |-> pushed, rpcs |-> <<>>]
  IN
  /\ alive
  /\ Len(written) < MaxWrites
  /\ Sends("write_update", f.queue, f.rpcs)
  /\ written' = Append(written, request)
  /\ UNCHANGED alive

\* write_update: push the request, then flush when the queue holds
\* max_pending_write_updates or more.
write_update(header, record) ==
  LET request == IndexWriteUpdate(m_platefile_id, header, record)
      pushed  == Append(m_write_queue, request)
      f       == IF Len(pushed) >= max_pending_write_updates
                   THEN flush_write_queue(pushed)
                   ELSE [queue |-> pushed, rpcs |-> <<>>]
  IN
  /\ alive
  /\ Len(written) < MaxWrites
  /\ Sends("write_update", f.queue, f.rpcs)
  /\ written' = Append(written, request)
  /\ UNCHANGED alive

write_complete(blob_id, blob_offset) ==
  LET f   == flush_write_queue(m_write_queue)
      own == Rpc("WriteComplete",
             [platefile_id |-> m_platefile_id, blob_id |-> blob_id,
              blob_offset |-> blob_offset])
  IN
  /\ alive
  /\ Sends("write_complete", f.queue, f.rpcs \o <<own>>)
  /\ UNCHANGED <<alive, written>>

valid_tiles(level, region, begin_transaction_id, end_transaction_id, min_num_matches) ==
  LET f   == flush_write_queue(m_write_queue)
      own == Rpc("ValidTiles",
             [platefile_id |-> m_platefile_id, level |-> level,
              region_col |-> region.col, region_row |-> region.row,
              region_width |-> region.width, region_height |-> region.height,
              begin_transaction_id |-> begin_transaction_id,
              end_transaction_id |-> end_transaction_id,
              min_num_matches |-> min_num_matches])
  IN
  /\ alive
  /\ Sends("valid_tiles", f.queue, f.rpcs \o <<own>>)
  /\ UNCHANGED <<alive, written>>

num_levels ==
  LET f   == flush_write_queue(m_write_queue)
      own == Rpc("NumLevelsRequest", [platefile_id |-> m_platefile_id])
  IN
  /\ alive
  /\ Sends("num_levels", f.queue, f.rpcs \o <<own>>)
  /\ UNCHANGED <<alive, written>>

\* Mutant of transaction_request: it flushes first, like transaction_complete.
transaction_request_flushing(transaction_description, transaction_id_override) ==
  LET f   == flush_write_queue(m_write_queue)
      own == Rpc("TransactionRequest",
             [platefile_id |-> m_platefile_id, description |-> transaction_description,
              transaction_id_override |-> transaction_id_override])
  IN
  /\ alive
  /\ Sends("transaction_request", f.queue, f.rpcs \o <<own>>)
  /\ UNCHANGED <<alive, written>>

\* transaction_request sends its request and nothing else.
transaction_request(transaction_description, transaction_id_override) ==
  LET own == Rpc("TransactionRequest",
             [platefile_id |-> m_platefile_id, description |-> transaction_description,
              transaction_id_override |-> transaction_id_override])
  IN
  /\ alive
  /\ Sends("transaction_request", m_write_queue, <<own>>)
  /\ UNCHANGED <<alive, written>>

\* Mutant of transaction_complete: update_read_cursor is not passed on.
transaction_complete_cursor_flag_dropped(transaction_id, update_read_cursor) ==
  LET f   == flush_write_queue(m_write_queue)
      own == Rpc("TransactionComplete",
             [platefile_id |-> m_platefile_id, transaction_id |-> transaction_id,
              update_read_cursor |-> FALSE])
  IN
  /\ alive
  /\ Sends("transaction_complete", f.queue, f.rpcs \o <<own>>)
  /\ UNCHANGED <<alive, written>>

transaction_complete(transaction_id, update_read_cursor) ==
  LET f   == flush_write_queue(m_write_queue)
      own == Rpc("TransactionComplete",
             [platefile_id |-> m_platefile_id, transaction_id |-> transaction_id,
              update_read_cursor |-> update_read_cursor])
  IN
  /\ alive
  /\ Sends("transaction_complete", f.queue, f.rpcs \o <<own>>)
  /\ UNCHANGED <<alive, written>>

transaction_failed(transaction_id) ==
  LET f   == flush_write_queue(m_write_queue)
      own == Rpc("TransactionFailed",
             [platefile_id |-> m_platefile_id, transaction_id |-> transaction_id])
  IN
  /\ alive
  /\ Sends("transaction_failed", f.queue, f.rpcs \o <<own>>)
  /\ UNCHANGED <<alive, written>>

\* Mutant of transaction_cursor: it flushes first, like transaction_complete.
transaction_cursor_flushing ==
  LET f   == flush_write_queue(m_write_queue)
      own == Rpc("TransactionCursor", [platefile_id |-> m_platefile_id])
  IN
  /\ alive
  /\ Sends("transaction_cursor", f.queue, f.rpcs \o <<own>>)
  /\ UNCHANGED <<alive, written>>

\* transaction_cursor sends its request and nothing else.
transaction_cursor ==
  LET own == Rpc("TransactionCursor", [platefile_id |-> m_platefile_id])
  IN
  /\ alive
  /\ Sends("transaction_cursor", m_write_queue, <<own>>)
  /\ UNCHANGED <<alive, written>>

\* Mutant of Destructor: the flush is missing.
Destructor_unflushed ==
  /\ alive
  /\ alive' = FALSE
  /\ Sends("~RemoteIndex", m_write_queue, <<>>)
  /\ UNCHANGED written

\* ~RemoteIndex: flush, then the instance is gone.
Destructor ==
  LET f == flush_write_queue(m_write_queue) IN
  /\ alive
  /\ alive' = FALSE
  /\ Sends("~RemoteIndex", f.queue, f.rpcs)
  /\ UNCHANGED written

(***************************************************************************)
(* parse_url and the library calls it makes.                               *)
(***************************************************************************)
npos == -1

\* std::string::find(pat): the first position (from 0) where pat occurs.
Find(str, pat) ==
  LET hits == {i \in 0..(Len(str) - Len(pat)) :
                 SubSeq(str, i + 1, i + Len(pat)) = pat}
  IN IF hits = {} THEN npos ELSE CHOOSE i \in hits : \A j \in hits : i <= j

\* std::string::substr(pos)
substr(str, pos) == SubSeq(str, pos + 1, Len(str))

\* boost::split(result, str, is_any_of(delims)): adjacent separators are not
\* merged, so n separators give n + 1 tokens, empty ones included.
RECURSIVE SplitFrom(_, _, _, _)
SplitFrom(str, delims, tokens, token) ==
  IF str = <<>> THEN Append(tokens, token)
  ELSE IF Head(str) \in delims
    THEN SplitFrom(Tail(str), delims, Append(tokens, token), <<>>)
    ELSE SplitFrom(Tail(str), delims, tokens, Append(token, Head(str)))

split(str, delims) == SplitFrom(str, delims, <<>>, <<>>)

DigitValue == [c \in {"0", "1", "2", "3", "4", "5", "6", "7", "8", "9"} |->
                 CASE c = "0" -> 0 [] c = "1" -> 1 [] c = "2" -> 2 [] c = "3" -> 3
                   [] c = "4" -> 4 [] c = "5" -> 5 [] c = "6" -> 6 [] c = "7" -> 7
                   [] c = "8" -> 8 [] c = "9" -> 9]

\* The range of int.
IntMax == 2147483647

IntMin == (0 - IntMax) - 1

\* The digits of str read left to right into the negated value acc, which
\* must not pass floor; 1 when a character is no digit or the value does.
RECURSIVE ReadDigits(_, _, _)
ReadDigits(str, acc, floor) ==
  IF str = <<>> THEN acc
  ELSE IF Head(str) \notin DOMAIN DigitValue THEN 1
  ELSE LET d == DigitValue[Head(str)]
       IN IF acc < (floor + d + 9) \div 10 THEN 1
          ELSE ReadDigits(Tail(str), 10 * acc - d, floor)

\* boost::lexical_cast<int>(str): an optional sign, then one or more digits
\* and nothing else, the value within int; anything else is bad_lexical_cast.
lexical_cast_int(str) ==
  LET signed == str # <<>> /\ Head(str) \in {"+", "-"}
      digits == IF signed THEN Tail(str) ELSE str
      minus  == signed /\ Head(str) = "-"
      neg    == IF digits = <<>> THEN 1
                ELSE ReadDigits(digits, 0, IF minus THEN IntMin ELSE 0 - IntMax)
  IN IF neg > 0
       THEN [ok |-> FALSE, value |-> 0]
       ELSE [ok |-> TRUE, value |-> IF minus THEN neg ELSE 0 - neg]

\* The four reference parameters of parse_url as the caller passed them in.
Untouched == [threw |-> "none", assigned |-> {}, hostname |-> <<>>, port |-> 0,
              exchange |-> <<>>, platefile_name |-> <<>>]

Assign(out, name, value) ==
  [out EXCEPT ![name] = value, !.assigned = @ \cup {name}]

Throw(out, what) == [out EXCEPT !.threw = what]

\* split_vec.size() == 2: pf://<routing_key>/<platefilename>
TwoSegments(split_vec) ==
  LET o1 == Assign(Untouched, "hostname", localhost)
      o2 == Assign(o1, "port", default_port)
      o3 == Assign(o2, "exchange", split_vec[1])
  IN Assign(o3, "platefile_name", split_vec[2])

\* Mutant of ThreeSegments: the routing key and the platefile name are read
\* from the positions they have in the two-segment form.
ThreeSegments_shifted(split_vec) ==
  LET o1 == Assign(Untouched, "exchange", split_vec[1])
      o2 == Assign(o1, "platefile_name", split_vec[2])
      host_port_vec == split(split_vec[1], {":"})
  IN IF Len(host_port_vec) = 1
       THEN Assign(Assign(o2, "hostname", host_port_vec[1]), "port", default_port)
     ELSE IF Len(host_port_vec) = 2
       THEN LET o3 == Assign(o2, "hostname", host_port_vec[1])
                p  == lexical_cast_int(host_port_vec[2])
            IN IF p.ok THEN Assign(o3, "port", p.value)
                       ELSE Throw(o3, "bad_lexical_cast")
     ELSE Throw(o2, "ArgumentErr")

\* split_vec.size() == 3: pf://<host>[:<port>]/<routing_key>/<platefilename>
ThreeSegments(split_vec) ==
  LET o1 == Assign(Untouched, "exchange", split_vec[2])
      o2 == Assign(o1, "platefile_name", split_vec[3])
      host_port_vec == split(split_vec[1], {":"})
  IN IF Len(host_port_vec) = 1
       THEN Assign(Assign(o2, "hostname", host_port_vec[1]), "port", default_port)
     ELSE IF Len(host_port_vec) = 2
       THEN LET o3 == Assign(o2, "hostname", host_port_vec[1])
                p  == lexical_cast_int(host_port_vec[2])
            IN IF p.ok THEN Assign(o3, "port", p.value)
                       ELSE Throw(o3, "bad_lexical_cast")
     ELSE Throw(o2, "ArgumentErr")

\* Mutant of parse_url: the scheme test is "not found" where the code has
\* "not at position 0".
parse_url_scheme_anywhere(str) ==
  IF Find(str, Scheme) = npos
    THEN Throw(Untouched, "ArgumentErr")
    ELSE LET split_vec == split(substr(str, 5), {"/"})
         IN IF Len(split_vec) = 2 THEN TwoSegments(split_vec)
            ELSE IF Len(split_vec) = 3 THEN ThreeSegments(split_vec)
            ELSE Throw(Untouched, "ArgumentErr")

parse_url(str) ==
  IF Find(str, Scheme) # 0
    THEN Throw(Untouched, "ArgumentErr")
    ELSE LET split_vec == split(substr(str, 5), {"/"})
         IN IF Len(split_vec) = 2 THEN TwoSegments(split_vec)
            ELSE IF Len(split_vec) = 3 THEN ThreeSegments(split_vec)
            ELSE Throw(Untouched, "ArgumentErr")

\* One call of parse_url on the URL at hand.
ParseUrl ==
  /\ parsed = NotParsed
  /\ parsed' = parse_url(url)
  /\ UNCHANGED <<url, index_vars>>

\* The session members as a constructor leaves them for a platefile id.
SessionOf(pid) ==
  /\ m_index_header = ServiceHeader(pid, "png")
  /\ m_short_plate_filename = "a.plate"
  /\ m_full_plate_filename = "/plates/a.plate"
  /\ transport = Established(localhost, default_port, <<"a">>, <<"a">>)

\* No call has returned anything, and the service has seen no transaction.
NoReplies ==
  /\ result = NoResult
  /\ transactions = [t \in TransactionIds |-> "UNOPENED"]
  /\ cursor = 0

\* The replies of the service are left out of a step.
RepliesUnobserved == UNCHANGED reply_vars

\* The state after construction: the service has assigned the platefile id.
Init ==
  /\ m_platefile_id \in PlatefileIds
  /\ m_write_queue = <<>>
  /\ alive = TRUE
  /\ call = NoCall
  /\ written = <<>>
  /\ delivered = <<>>
  /\ url = <<>>
  /\ parsed = NotParsed
  /\ SessionOf(m_platefile_id)
  /\ NoReplies
  /\ SingleCaller

Next ==
  \/ \E col \in Cols, level \in Levels, t \in TransactionIds, e \in BOOLEAN :
       read_request(col, 0, level, t, e) /\ RepliesUnobserved
  \/ \E col \in Cols, level \in Levels, b \in TransactionIds, e \in TransactionIds :
       multi_read_request(col, 0, level, b, e) /\ RepliesUnobserved
  \/ \E size \in Sizes : write_request(size) /\ RepliesUnobserved
  \/ \E header \in NextHeaders, record \in Records :
       write_update(header, record) /\ RepliesUnobserved
  \/ \E blob_id \in BlobIds, blob_offset \in BlobOffsets :
       write_complete(blob_id, blob_offset) /\ RepliesUnobserved
  \/ \E level \in Levels, region \in Regions, b \in TransactionIds, e \in TransactionIds :
       valid_tiles(level, region, b, e, 1) /\ RepliesUnobserved
  \/ num_levels /\ RepliesUnobserved
  \/ \E d \in Descriptions, o \in {-1} \cup TransactionIds :
       transaction_request(d, o) /\ RepliesUnobserved
  \/ \E t \in TransactionIds, u \in BOOLEAN :
       transaction_complete(t, u) /\ RepliesUnobserved
  \/ \E t \in TransactionIds : transaction_failed(t) /\ RepliesUnobserved
  \/ transaction_cursor /\ RepliesUnobserved
  \/ Destructor /\ RepliesUnobserved

Spec == Init /\ [][Next]_vars

\* parse_url on its own: any URL of Urls, parsed once.
InitParse ==
  /\ url \in Urls
  /\ parsed = NotParsed
  /\ m_platefile_id = 0
  /\ m_write_queue = <<>>
  /\ alive = FALSE
  /\ call = NoCall
  /\ written = <<>>
  /\ delivered = <<>>
  /\ Unconstructed
  /\ NoReplies
  /\ SingleCaller

NextParse == ParseUrl

SpecParse == InitParse /\ [][NextParse]_vars
(***************************************************************************)
(* The session: the two constructors and the header accessors.             *)
(***************************************************************************)
\* How many write_update calls a session makes.
MaxSessionWrites == 2

\* URLs handed to a constructor: the two accepted forms, and three that
\* parse_url does not accept (no scheme at position 0, one segment, a port
\* that is no number).
SessionUrls ==
  {Scheme \o <<"a", "/", "b">>,
   Scheme \o <<"a", ":", "7", "/", "a", "/", "b">>,
   <<"x">> \o Scheme \o <<"a", "/", "b">>,
   Scheme \o <<"a">>,
   Scheme \o <<"a", ":", "a", "/", "a", "/", "b">>}

\* IndexOpenReply as the service may fill it in.
OpenReplies ==
  {[index_header |-> ServiceHeader(pid, filetype),
    short_plate_filename |-> "b.plate",
    full_plate_filename |-> "/plates/b.plate"] :
     pid \in PlatefileIds, filetype \in FileTypes}

\* IndexHeader templates a caller may pass to the creating constructor.
Templates == {IndexHeader(pid, filetype) : pid \in {0} \cup PlatefileIds, filetype \in FileTypes}

\* Lines 85-88 and 120-123: connection, client, stub and bound reply queue.
Connect(p) == Established(p.hostname, p.port, p.exchange, p.platefile_name)

\* Lines 98-101 and 136-139: the members take the values of the reply.
CacheReply(response) ==
  /\ m_index_header' = response.index_header
  /\ m_platefile_id' = response.index_header.platefile_id
  /\ m_short_plate_filename' = response.short_plate_filename
  /\ m_full_plate_filename' = response.full_plate_filename

\* A constructor left by an exception of parse_url: no instance exists.
NotConstructed(op) ==
  /\ call' = [op |-> op, rpcs |-> <<>>]
  /\ UNCHANGED <<m_platefile_id, alive, session_vars, result>>

\* Mutant of RemoteIndexOpen: the connection is set up before the URL is
\* parsed.
RemoteIndexOpen_connects_first(str, response) ==
  LET p == parse_url(str)
      request == [plate_name |-> p.platefile_name]
  IN
  /\ ~alive
  /\ Unconstructed
  /\ url' = str
  /\ parsed' = p
  /\ transport' = Connect(p)
  /\ IF p.threw # "none"
       THEN /\ call' = [op |-> "RemoteIndex(url)", rpcs |-> <<>>]
            /\ UNCHANGED <<m_platefile_id, alive, m_index_header,
                           m_short_plate_filename, m_full_plate_filename, result>>
       ELSE /\ call' = [op |-> "RemoteIndex(url)", rpcs |-> <<Rpc("OpenRequest", request)>>]
            /\ result' = [of |-> "OpenRequest", reply |-> response]
            /\ CacheReply(response)
            /\ alive' = TRUE
  /\ UNCHANGED <<m_write_queue, written, delivered, transactions, cursor, fault_vars,
                 thread_vars>>

\* RemoteIndex(url), lines 73-104: open an existing index.
RemoteIndexOpen(str, response) ==
  LET p == parse_url(str)
      request == [plate_name |-> p.platefile_name]
  IN
  /\ ~alive
  /\ Unconstructed
  /\ url' = str
  /\ parsed' = p
  /\ IF p.threw # "none"
       THEN NotConstructed("RemoteIndex(url)")
       ELSE /\ transport' = Connect(p)
            /\ call' = [op |-> "RemoteIndex(url)", rpcs |-> <<Rpc("OpenRequest", request)>>]
            /\ result' = [of |-> "OpenRequest", reply |-> response]
            /\ CacheReply(response)
            /\ alive' = TRUE
  /\ UNCHANGED <<m_write_queue, written, delivered, transactions, cursor, fault_vars,
                 thread_vars>>

\* Mutant of RemoteIndexCreate: the template is sent as the caller gave it.
RemoteIndexCreate_template_id_kept(str, index_header_info, response) ==
  LET p == parse_url(str)
      request == [plate_name |-> p.platefile_name, index_header |-> index_header_info]
  IN
  /\ ~alive
  /\ Unconstructed
  /\ url' = str
  /\ parsed' = p
  /\ IF p.threw # "none"
       THEN NotConstructed("RemoteIndex(url, index_header_info)")
       ELSE /\ transport' = Connect(p)
            /\ call' = [op |-> "RemoteIndex(url, index_header_info)",
                        rpcs |-> <<Rpc("CreateRequest", request)>>,
                        index_header_info |-> index_header_info]
            /\ result' = [of |-> "CreateRequest", reply |-> response]
            /\ CacheReply(response)
            /\ alive' = TRUE
  /\ UNCHANGED <<m_write_queue, written, delivered, transactions, cursor, fault_vars,
                 thread_vars>>

\* Mutant of RemoteIndexCreate: the header of the initializer list stays.
RemoteIndexCreate_keeps_template(str, index_header_info, response) ==
  LET p == parse_url(str)
      header == [index_header_info EXCEPT !.platefile_id = 0]
      request == [plate_name |-> p.platefile_name, index_header |-> header]
  IN
  /\ ~alive
  /\ Unconstructed
  /\ url' = str
  /\ parsed' = p
  /\ IF p.threw # "none"
       THEN NotConstructed("RemoteIndex(url, index_header_info)")
       ELSE /\ transport' = Connect(p)
            /\ call' = [op |-> "RemoteIndex(url, index_header_info)",
                        rpcs |-> <<Rpc("CreateRequest", request)>>,
                        index_header_info |-> index_header_info]
            /\ result' = [of |-> "CreateRequest", reply |-> response]
            /\ m_index_header' = index_header_info
            /\ m_platefile_id' = response.index_header.platefile_id
            /\ m_short_plate_filename' = response.short_plate_filename
            /\ m_full_plate_filename' = response.full_plate_filename
            /\ alive' = TRUE
  /\ UNCHANGED <<m_write_queue, written, delivered, transactions, cursor, fault_vars,
                 thread_vars>>

\* RemoteIndex(url, index_header_info), lines 107-142: create a new index.
\* The initializer list copies the template into m_index_header; an
\* exception of parse_url then ends the construction and the member with it,
\* and the reply overwrites the member otherwise.
RemoteIndexCreate(str, index_header_info, response) ==
  LET p == parse_url(str)
      header == [index_header_info EXCEPT !.platefile_id = 0]
      request == [plate_name |-> p.platefile_name, index_header |-> header]
  IN
  /\ ~alive
  /\ Unconstructed
  /\ url' = str
  /\ parsed' = p
  /\ IF p.threw # "none"
       THEN NotConstructed("RemoteIndex(url, index_header_info)")
       ELSE /\ transport' = Connect(p)
            /\ call' = [op |-> "RemoteIndex(url, index_header_info)",
                        rpcs |-> <<Rpc("CreateRequest", request)>>,
                        index_header_info |-> index_header_info]
            /\ result' = [of |-> "CreateRequest", reply |-> response]
            /\ CacheReply(response)
            /\ alive' = TRUE
  /\ UNCHANGED <<m_write_queue, written, delivered, transactions, cursor, fault_vars,
                 thread_vars>>

\* The accessors, lines 293-319: each returns a cached member.
version ==
  /\ alive
  /\ Sends("version", m_write_queue, <<>>)
  /\ result' = [of |-> "version", value |-> m_index_header.version]
  /\ UNCHANGED <<alive, written, transactions, cursor>>

platefile_name ==
  /\ alive
  /\ Sends("platefile_name", m_write_queue, <<>>)
  /\ result' = [of |-> "platefile_name", value |-> m_full_plate_filename]
  /\ UNCHANGED <<alive, written, transactions, cursor>>

index_header ==
  /\ alive
  /\ Sends("index_header", m_write_queue, <<>>)
  /\ result' = [of |-> "index_header", value |-> m_index_header]
  /\ UNCHANGED <<alive, written, transactions, cursor>>

tile_size ==
  /\ alive
  /\ Sends("tile_size", m_write_queue, <<>>)
  /\ result' = [of |-> "tile_size", value |-> m_index_header.tile_size]
  /\ UNCHANGED <<alive, written, transactions, cursor>>

tile_filetype ==
  /\ alive
  /\ Sends("tile_filetype", m_write_queue, <<>>)
  /\ result' = [of |-> "tile_filetype", value |-> m_index_header.tile_filetype]
  /\ UNCHANGED <<alive, written, transactions, cursor>>

pixel_format ==
  /\ alive
  /\ Sends("pixel_format", m_write_queue, <<>>)
  /\ result' = [of |-> "pixel_format", value |-> m_index_header.pixel_format]
  /\ UNCHANGED <<alive, written, transactions, cursor>>

channel_type ==
  /\ alive
  /\ Sends("channel_type", m_write_queue, <<>>)
  /\ result' = [of |-> "channel_type", value |-> m_index_header.channel_type]
  /\ UNCHANGED <<alive, written, transactions, cursor>>

\* Nothing exists before a constructor has run.
InitSession ==
  /\ url = <<>>
  /\ parsed = NotParsed
  /\ m_platefile_id = 0
  /\ m_write_queue = <<>>
  /\ alive = FALSE
  /\ call = NoCall
  /\ written = <<>>
  /\ delivered = <<>>
  /\ Unconstructed
  /\ NoReplies
  /\ SingleCaller

NextSession ==
  \/ \E str \in SessionUrls, response \in OpenReplies : RemoteIndexOpen(str, response)
  \/ \E str \in SessionUrls, index_header_info \in Templates, response \in OpenReplies :
       RemoteIndexCreate(str, index_header_info, response)
  \/ version
  \/ platefile_name
  \/ index_header
  \/ tile_size
  \/ tile_filetype
  \/ pixel_format
  \/ channel_type
  \/ \E t \in TransactionIds : read_request(0, 0, 0, t, TRUE) /\ RepliesUnobserved
  \/ \E e \in TransactionIds : multi_read_request(0, 0, 0, 1, e) /\ RepliesUnobserved
  \/ \E size \in Sizes : write_request(size) /\ RepliesUnobserved
  \/ \E header \in NextHeaders, record \in Records :
       /\ Len(written) < MaxSessionWrites
       /\ write_update(header, record)
       /\ RepliesUnobserved
  \/ \E blob_id \in BlobIds : write_complete(blob_id, 0) /\ RepliesUnobserved
  \/ \E level \in Levels, region \in Regions :
       valid_tiles(level, region, 1, 2, 1) /\ RepliesUnobserved
  \/ num_levels /\ RepliesUnobserved
  \/ \E d \in Descriptions : transaction_request(d, -1) /\ RepliesUnobserved
  \/ \E t \in TransactionIds, u \in BOOLEAN :
       transaction_complete(t, u) /\ RepliesUnobserved
  \/ \E t \in TransactionIds : transaction_failed(t) /\ RepliesUnobserved
  \/ transaction_cursor /\ RepliesUnobserved
  \/ Destructor /\ RepliesUnobserved

SpecSession == InitSession /\ [][NextSession]_vars

(***************************************************************************)
(* The operations together with the index service: what the service does   *)
(* with a request, what it replies, and what the operation returns.        *)
(***************************************************************************)
\* Index records the service may hold for one tile.
ReplyRecords == {[blob_id |-> 0, blob_offset |-> 0], [blob_id |-> 1, blob_offset |-> 0]}

\* How many versions of a tile one IndexMultiReadReply lists.
MaxVersions == 2

\* IndexMultiReadReply: transaction ids and index records, one record per
\* id, in any order and with repetitions.
MultiReadReplies ==
  UNION {{[transaction_ids |-> ids, index_records |-> recs] :
            ids \in [1..n -> TransactionIds], recs \in [1..n -> ReplyRecords]} :
         n \in 0..MaxVersions}

RpcNullMessage == [null |-> TRUE]

\* Transaction ids the service has opened at some time.
Opened == {t \in TransactionIds : transactions[t] # "UNOPENED"}

\* The id a TransactionRequest opens: the override, or the next id.
AssignedId(transaction_id_override) ==
  IF transaction_id_override # -1 THEN transaction_id_override
  ELSE IF Opened = {} THEN CHOOSE t \in TransactionIds : \A u \in TransactionIds : t <= u
  ELSE (CHOOSE t \in Opened : \A u \in Opened : u <= t) + 1

\* The service rejects a TransactionRequest for an id it cannot open.
ServiceAccepts(rpc) ==
  rpc.method = "TransactionRequest" =>
    LET id == AssignedId(rpc.request.transaction_id_override)
    IN id \in TransactionIds /\ transactions[id] = "UNOPENED"

\* OPEN -> COMMITTED and OPEN -> FAILED are the only moves after opening.
TransactionsAfter(rpc) ==
  CASE rpc.method = "TransactionRequest" ->
         [transactions EXCEPT ![AssignedId(rpc.request.transaction_id_override)] = "OPEN"]
    [] rpc.method = "TransactionComplete" ->
         IF transactions[rpc.request.transaction_id] = "OPEN"
           THEN [transactions EXCEPT ![rpc.request.transaction_id] = "COMMITTED"]
           ELSE transactions
    [] rpc.method = "TransactionFailed" ->
         IF transactions[rpc.request.transaction_id] = "OPEN"
           THEN [transactions EXCEPT ![rpc.request.transaction_id] = "FAILED"]
           ELSE transactions
    [] OTHER -> transactions

\* A commit with update_read_cursor advances the cursor to the transaction.
CursorAfter(rpc) ==
  IF /\ rpc.method = "TransactionComplete"
     /\ transactions[rpc.request.transaction_id] = "OPEN"
     /\ rpc.request.update_read_cursor
     /\ rpc.request.transaction_id > cursor
    THEN rpc.request.transaction_id
    ELSE cursor

\* The replies the service may give to a request.
Replies(rpc) ==
  CASE rpc.method = "MultiReadRequest" -> MultiReadReplies
    [] rpc.method = "TransactionRequest" ->
         {[transaction_id |-> AssignedId(rpc.request.transaction_id_override)]}
    [] rpc.method = "TransactionCursor" -> {[transaction_id |-> cursor]}
    [] OTHER -> {RpcNullMessage}

\* Mutant of results: each pair is pushed at the front of the list.
RECURSIVE results_push_front(_, _)
results_push_front(response, i) ==
  IF i > Len(response.transaction_ids) THEN <<>>
  ELSE results_push_front(response, i + 1)
         \o <<[first |-> response.transaction_ids[i], second |-> response.index_records[i]]>>

\* Lines 188-195: the list built by the loop of multi_read_request from its
\* i-th pass on (the source counts from 0, a sequence from 1).
RECURSIVE results(_, _)
results(response, i) ==
  IF i > Len(response.transaction_ids) THEN <<>>
  ELSE <<[first |-> response.transaction_ids[i], second |-> response.index_records[i]]>>
         \o results(response, i + 1)

\* What an operation returns to its caller from the reply to its own RPC
\* (lines 197, 336, 374; the others return nothing).
Returned(op, response) ==
  CASE op = "multi_read_request" -> results(response, 1)
    [] op = "transaction_request" -> response.transaction_id
    [] op = "transaction_cursor" -> response.transaction_id
    [] OTHER -> "void"

\* The call just made with arguments args is served: the service acts on the
\* last RPC of the call and replies, and the operation returns.
Served(args) ==
  IF call'.rpcs = <<>>
    THEN /\ result' = [of |-> call'.op, args |-> args, reply |-> RpcNullMessage,
                       value |-> "void"]
         /\ UNCHANGED <<transactions, cursor>>
    ELSE LET rpc == call'.rpcs[Len(call'.rpcs)] IN
         /\ ServiceAccepts(rpc)
         /\ transactions' = TransactionsAfter(rpc)
         /\ cursor' = CursorAfter(rpc)
         /\ \E response \in Replies(rpc) :
              result' = [of |-> call'.op, args |-> args, reply |-> response,
                         value |-> Returned(call'.op, response)]

NextService ==
  \/ multi_read_request(0, 0, 0, 1, 2) /\ Served(<<0, 0, 0, 1, 2>>)
  \/ \E header \in NextHeaders, record \in Records :
       /\ Len(written) < MaxSessionWrites
       /\ write_update(header, record)
       /\ Served(<<header, record>>)
  \/ \E d \in Descriptions, o \in {-1} \cup TransactionIds :
       transaction_request(d, o) /\ Served(<<d, o>>)
  \/ \E t \in TransactionIds, u \in BOOLEAN :
       transaction_complete(t, u) /\ Served(<<t, u>>)
  \/ \E t \in TransactionIds : transaction_failed(t) /\ Served(<<t>>)
  \/ transaction_cursor /\ Served(<<>>)
  \/ Destructor /\ Served(<<>>)

SpecService == Init /\ [][NextService]_vars

(***************************************************************************)
(* Calls whose MultiWriteUpdate fails.  The failure comes out of the stub  *)
(* call as an exception; RemoteIndex.cc has no try block and no loop       *)
(* around a send, so the exception leaves flush_write_queue and the        *)
(* operation that called it at that statement.  A batch whose RPC failed   *)
(* is not counted as delivered: the service did not acknowledge it.        *)
(***************************************************************************)
\* What a failed RPC raises out of the stub call.
RpcFailure == "TransportError"

\* How many flushes fail.
MaxLost == 1

\* The operations whose first statement is flush_write_queue().
FlushingOperations == {"read_request", "multi_read_request", "write_complete",
                       "valid_tiles", "num_levels", "transaction_complete",
                       "transaction_failed"}

\* Mutant of FlushFails: the failed batch is sent a second time.
FlushFails_retried(op) ==
  LET f == flush_write_queue(m_write_queue) IN
  /\ alive
  /\ m_write_queue' = f.queue
  /\ call' = [op |-> op, rpcs |-> f.rpcs \o f.rpcs, failed |-> 1, threw |-> RpcFailure]
  /\ lost' = Append(lost, BatchUpdates(f.rpcs))
  /\ UNCHANGED <<m_platefile_id, alive, written, delivered, url_vars, session_vars,
                 reply_vars, thread_vars>>

\* Mutant of FlushFails: the batch is sent before the queue is drained, and
\* the exception leaves the entries queued.
FlushFails_queue_kept(op) ==
  LET f == flush_write_queue(m_write_queue) IN
  /\ alive
  /\ m_write_queue' = m_write_queue
  /\ call' = [op |-> op, rpcs |-> f.rpcs, failed |-> 1, threw |-> RpcFailure]
  /\ lost' = Append(lost, BatchUpdates(f.rpcs))
  /\ UNCHANGED <<m_platefile_id, alive, written, delivered, url_vars, session_vars,
                 reply_vars, thread_vars>>

\* A flushing operation whose flush fails: the queue is drained (lines
\* 231-234), the batch is sent (236-237), and the exception ends the call
\* before the statements that build and send its own request.
FlushFails(op) ==
  LET f == flush_write_queue(m_write_queue) IN
  /\ alive
  /\ m_write_queue' = f.queue
  /\ call' = [op |-> op, rpcs |-> f.rpcs, failed |-> 1, threw |-> RpcFailure]
  /\ lost' = Append(lost, BatchUpdates(f.rpcs))
  /\ UNCHANGED <<m_platefile_id, alive, written, delivered, url_vars, session_vars,
                 reply_vars, thread_vars>>

\* write_update whose threshold flush fails: the update is pushed (line 221)
\* and leaves with the batch.
write_update_flush_fails(header, record) ==
  LET request == IndexWriteUpdate(m_platefile_id, header, record)
      pushed  == Append(m_write_queue, request)
      f       == flush_write_queue(pushed)
  IN
  /\ alive
  /\ Len(written) < MaxWrites
  /\ Len(pushed) >= max_pending_write_updates
  /\ written' = Append(written, request)
  /\ m_write_queue' = f.queue
  /\ call' = [op |-> "write_update", rpcs |-> f.rpcs, failed |-> 1, threw |-> RpcFailure]
  /\ lost' = Append(lost, BatchUpdates(f.rpcs))
  /\ UNCHANGED <<m_platefile_id, alive, delivered, url_vars, session_vars, reply_vars,
                 thread_vars>>

\* ~RemoteIndex whose flush fails: the instance is gone all the same.
Destructor_flush_fails ==
  LET f == flush_write_queue(m_write_queue) IN
  /\ alive
  /\ alive' = FALSE
  /\ m_write_queue' = f.queue
  /\ call' = [op |-> "~RemoteIndex", rpcs |-> f.rpcs, failed |-> 1, threw |-> RpcFailure]
  /\ lost' = Append(lost, BatchUpdates(f.rpcs))
  /\ UNCHANGED <<m_platefile_id, written, delivered, url_vars, session_vars, reply_vars,
                 thread_vars>>

NextFault ==
  \/ \E op \in FlushingOperations : Len(lost) < MaxLost /\ FlushFails(op)
  \/ \E header \in NextHeaders, record \in Records :
       Len(lost) < MaxLost /\ write_update_flush_fails(header, record)
  \/ Len(lost) < MaxLost /\ Destructor_flush_fails
  \/ \E header \in NextHeaders, record \in Records :
       write_update(header, record) /\ RepliesUnobserved
  \/ read_request(0, 0, 0, 1, TRUE) /\ RepliesUnobserved
  \/ \E u \in BOOLEAN : transaction_complete(1, u) /\ RepliesUnobserved
  \/ transaction_cursor /\ RepliesUnobserved
  \/ Destructor /\ RepliesUnobserved

SpecFault == Init /\ [][NextFault]_vars

(***************************************************************************)
(* Two threads on one instance, statement by statement.  threads[t] holds  *)
(* the statement thread t is at (pc), the operation it is in (op), the     *)
(* update its write_update pushed (pushed), the local request of its       *)
(* flush_write_queue (request), the RPCs its call has sent (rpcs) and, for *)
(* the properties, the returned updates that were still queued when it     *)
(* sent its own request (behind).  RemoteIndex has no lock of its own; the *)
(* callers either wrap every call in one mutex (mutex.used) or do not.     *)
(* Unsynchronised access to std::queue is undefined: where a thread reads  *)
(* front() of, or pops, a queue another thread has emptied, the process    *)
(* crashes or goes on with stale memory.                                   *)
(***************************************************************************)
\* How many write_update calls the threads make together.
MaxThreadWrites == 2

\* The operations the threads call: the one that queues and one that flushes.
ThreadOperations == {"write_update", "read_request"}

\* The threads that are past the push of a write_update they are still in.
Pushing == {t \in Threads : threads[t].pushed # <<>>}

\* Every update pushed so far.
Pushed == {written[i] : i \in DOMAIN written} \cup {threads[t].pushed[1] : t \in Pushing}

\* The tile of the next write_update: each push writes a new tile.
ThreadHeaders == {[col |-> Cardinality(Pushed) + 1, row |-> 0, level |-> 0]}

At(t, pc) == alive /\ threads[t].pc = pc

Goto(t, pc) == threads' = [threads EXCEPT ![t].pc = pc]

\* The process is gone.
Crash ==
  /\ alive' = FALSE
  /\ UNCHANGED <<m_platefile_id, m_write_queue, call, written, delivered, url_vars,
                 session_vars, reply_vars, fault_vars, thread_vars>>

\* What a thread's step leaves alone besides the queue and the ghosts.
ThreadFrame == UNCHANGED <<m_platefile_id, alive, url_vars, session_vars, reply_vars,
                           fault_vars>>

\* Mutant of Enter: the mutex is taken without waiting for its holder.
Enter_without_waiting(t, op) ==
  /\ At(t, "idle")
  /\ op = "write_update" => Cardinality(Pushed) < MaxThreadWrites
  /\ mutex' = IF mutex.used THEN [mutex EXCEPT !.holder = t] ELSE mutex
  /\ threads' = [threads EXCEPT ![t] = [Idle EXCEPT !.op = op,
                   !.pc = IF op = "write_update" THEN "push" ELSE "while"]]
  /\ ThreadFrame
  /\ UNCHANGED <<m_write_queue, call, written, delivered>>

\* Thread t calls op, after locking the mutex if the callers use one.
Enter(t, op) ==
  /\ At(t, "idle")
  /\ op = "write_update" => Cardinality(Pushed) < MaxThreadWrites
  /\ mutex.used => mutex.holder = 0
  /\ mutex' = IF mutex.used THEN [mutex EXCEPT !.holder = t] ELSE mutex
  /\ threads' = [threads EXCEPT ![t] = [Idle EXCEPT !.op = op,
                   !.pc = IF op = "write_update" THEN "push" ELSE "while"]]
  /\ ThreadFrame
  /\ UNCHANGED <<m_write_queue, call, written, delivered>>

\* write_update, lines 217-221: build the request and push it.
write_update_push(t, header, record) ==
  LET request == IndexWriteUpdate(m_platefile_id, header, record) IN
  /\ At(t, "push")
  /\ m_write_queue' = Append(m_write_queue, request)
  /\ threads' = [threads EXCEPT ![t].pc = "if", ![t].pushed = <<request>>]
  /\ ThreadFrame
  /\ UNCHANGED <<call, written, delivered, mutex>>

\* write_update, lines 223-225: flush when the queue has reached the threshold.
write_update_if(t) ==
  /\ At(t, "if")
  /\ Goto(t, IF Len(m_write_queue) >= max_pending_write_updates THEN "while" ELSE "return")
  /\ ThreadFrame
  /\ UNCHANGED <<m_write_queue, call, written, delivered, mutex>>

\* flush_write_queue, line 231: the test of the loop.
flush_write_queue_while(t) ==
  /\ At(t, "while")
  /\ Goto(t, IF Len(m_write_queue) > 0 THEN "front" ELSE "send")
  /\ ThreadFrame
  /\ UNCHANGED <<m_write_queue, call, written, delivered, mutex>>

\* flush_write_queue, line 232: copy front() into the local request.  On a
\* queue emptied by the other thread front() is undefined: a crash, or some
\* update that was in the queue before.
flush_write_queue_front(t) ==
  /\ At(t, "front")
  /\ IF m_write_queue # <<>>
       THEN /\ threads' = [threads EXCEPT ![t].pc = "pop",
                             ![t].request = Append(@, Head(m_write_queue))]
            /\ ThreadFrame
            /\ UNCHANGED <<m_write_queue, call, written, delivered, mutex>>
       ELSE \/ Crash
            \/ /\ \E stale \in Pushed :
                    threads' = [threads EXCEPT ![t].pc = "pop",
                                  ![t].request = Append(@, stale)]
               /\ ThreadFrame
               /\ UNCHANGED <<m_write_queue, call, written, delivered, mutex>>

\* flush_write_queue, line 233: pop().  On a queue emptied by the other
\* thread pop() is undefined: a crash, or the queue stays empty.
flush_write_queue_pop(t) ==
  /\ At(t, "pop")
  /\ IF m_write_queue # <<>>
       THEN /\ m_write_queue' = Tail(m_write_queue)
            /\ Goto(t, "while")
            /\ ThreadFrame
            /\ UNCHANGED <<call, written, delivered, mutex>>
       ELSE \/ Crash
            \/ /\ Goto(t, "while")
               /\ ThreadFrame
               /\ UNCHANGED <<m_write_queue, call, written, delivered, mutex>>

\* flush_write_queue, lines 235-237: send the local request.
flush_write_queue_send(t) ==
  LET rpc == Rpc("MultiWriteUpdate", [write_updates |-> threads[t].request]) IN
  /\ At(t, "send")
  /\ delivered' = delivered \o threads[t].request
  /\ threads' = [threads EXCEPT ![t].request = <<>>, ![t].rpcs = Append(@, rpc),
                   ![t].pc = IF threads[t].op = "write_update" THEN "return" ELSE "own"]
  /\ ThreadFrame
  /\ UNCHANGED <<m_write_queue, call, written, mutex>>

\* read_request, lines 158-168: build the ReadRequest and send it.
read_request_send(t) ==
  LET own == Rpc("ReadRequest",
             [platefile_id |-> m_platefile_id, col |-> 0, row |-> 0, level |-> 0,
              transaction_id |-> 1, exact_transaction_match |-> TRUE])
  IN
  /\ At(t, "own")
  /\ threads' = [threads EXCEPT ![t].pc = "return", ![t].rpcs = Append(@, own),
                   ![t].behind = {written[i] : i \in DOMAIN written}
                                   \cap {m_write_queue[i] : i \in DOMAIN m_write_queue}]
  /\ ThreadFrame
  /\ UNCHANGED <<m_write_queue, call, written, delivered, mutex>>

\* The call of thread t returns, and the caller unlocks the mutex if the
\* callers use one.  Calls overlap here, so there is no call that ran last:
\* what a call sent is read from threads[t] before it returns.
Return(t) ==
  /\ At(t, "return")
  /\ written' = written \o threads[t].pushed
  /\ threads' = [threads EXCEPT ![t] = Idle]
  /\ mutex' = IF mutex.used THEN [mutex EXCEPT !.holder = 0] ELSE mutex
  /\ ThreadFrame
  /\ UNCHANGED <<m_write_queue, call, delivered>>

\* A constructed instance shared by the threads, with or without the mutex.
InitThreads ==
  /\ m_platefile_id = 1
  /\ m_write_queue = <<>>
  /\ alive = TRUE
  /\ call = NoCall
  /\ written = <<>>
  /\ delivered = <<>>
  /\ url = <<>>
  /\ parsed = NotParsed
  /\ SessionOf(m_platefile_id)
  /\ NoReplies
  /\ lost = <<>>
  /\ threads = [t \in Threads |-> Idle]
  /\ mutex \in {[used |-> u, holder |-> 0] : u \in BOOLEAN}

NextThreads ==
  \/ \E t \in Threads, op \in ThreadOperations : Enter(t, op)
  \/ \E t \in Threads, header \in ThreadHeaders, record \in Records :
       write_update_push(t, header, record)
  \/ \E t \in Threads : write_update_if(t)
  \/ \E t \in Threads : flush_write_queue_while(t)
  \/ \E t \in Threads : flush_write_queue_front(t)
  \/ \E t \in Threads : flush_write_queue_pop(t)
  \/ \E t \in Threads : flush_write_queue_send(t)
  \/ \E t \in Threads : read_request_send(t)
  \/ \E t \in Threads : Return(t)

SpecThreads == InitThreads /\ [][NextThreads]_vars

(***************************************************************************)
(* Vocabulary of the properties.                                           *)
(***************************************************************************)
FlushFirstOps == {"read_request", "multi_read_request", "valid_tiles", "num_levels",
                  "write_complete", "transaction_complete", "transaction_failed"}

OwnMethod(op) ==
  CASE op = "read_request"         -> "ReadRequest"
    [] op = "multi_read_request"   -> "MultiReadRequest"
    [] op = "valid_tiles"          -> "ValidTiles"
    [] op = "num_levels"           -> "NumLevelsRequest"
    [] op = "write_request"        -> "WriteRequest"
    [] op = "write_complete"       -> "WriteComplete"
    [] op = "transaction_request"  -> "TransactionRequest"
    [] op = "transaction_complete" -> "TransactionComplete"
    [] op = "transaction_failed"   -> "TransactionFailed"
    [] op = "transaction_cursor"   -> "TransactionCursor"
    [] OTHER                       -> "none"

Batch(updates) == Rpc("MultiWriteUpdate", [write_updates |-> updates])

IsBatch(rpc) == rpc.method = "MultiWriteUpdate"

BatchPositions(rpcs) == {i \in 1..Len(rpcs) : IsBatch(rpcs[i])}

OwnPositions(c) == {i \in 1..Len(c.rpcs) : c.rpcs[i].method = OwnMethod(c.op)}

LastN(seq, n) == SubSeq(seq, Len(seq) - n + 1, Len(seq))

(***************************************************************************)
(* C1. Flush before operation: whenever read_request, multi_read_request,  *)
(* valid_tiles, num_levels, write_complete, transaction_complete or        *)
(* transaction_failed sends its own RPC, every update passed to an earlier *)
(* write_update has already reached the service in a MultiWriteUpdate      *)
(* batch (what the service had before the call plus the batches the call   *)
(* sent ahead of its own RPC is everything written) and the queue is       *)
(* empty.                                                                  *)
(***************************************************************************)
C1_FlushBeforeOperation ==
  [][call'.op \in FlushFirstOps =>
       /\ OwnPositions(call') # {}
       /\ \A i \in OwnPositions(call') :
            /\ delivered \o BatchUpdates(SubSeq(call'.rpcs, 1, i - 1)) = written'
            /\ \A j \in BatchPositions(call'.rpcs) : j < i
       /\ m_write_queue' = <<>>]_vars

\* C1 witness: a flushing operation ran with updates queued, after an
\* earlier batch had already gone out.
C1_Witness ==
  /\ call.op \in FlushFirstOps
  /\ Len(call.rpcs) = 2
  /\ IsBatch(call.rpcs[1])
  /\ Len(call.rpcs[1].request.write_updates) >= 2
  /\ Len(written) > max_pending_write_updates
  /\ delivered = written

C3_EmptyFlushSendsNothing ==
  [][(call'.op \in FlushFirstOps \cup {"~RemoteIndex"} /\ m_write_queue = <<>>) =>
       BatchPositions(call'.rpcs) = {}]_vars

\* C3: the state the claim excludes, a call that sent an empty batch.
C3_EmptyBatchSent ==
  \E i \in BatchPositions(call.rpcs) : call.rpcs[i].request.write_updates = <<>>

(***************************************************************************)
(* C4. Threshold flush policy: a write_update that brings the queue to     *)
(* fewer than 10 entries sends nothing and appends its update; the one     *)
(* that brings it to 10 sends exactly one MultiWriteUpdate RPC holding the *)
(* 10 latest updates in the order they were written, and leaves the queue  *)
(* empty.  The queue never holds more.                                     *)
(***************************************************************************)
C4_ThresholdFlush ==
  [][call'.op = "write_update" =>
       /\ Len(written') = Len(written) + 1
       /\ Len(m_write_queue) < max_pending_write_updates
       /\ IF Len(m_write_queue) + 1 < max_pending_write_updates
            THEN /\ call'.rpcs = <<>>
                 /\ m_write_queue' = Append(m_write_queue, written'[Len(written')])
                 /\ delivered' = delivered
            ELSE /\ call'.rpcs = <<Batch(LastN(written', max_pending_write_updates))>>
                 /\ m_write_queue' = <<>>
                 /\ delivered' = written']_vars

\* C4 witness: the 10th consecutive write_update since the instance was
\* constructed has just sent its batch.
C4_Witness ==
  /\ call.op = "write_update"
  /\ Len(written) = max_pending_write_updates
  /\ call.rpcs = <<Batch(written)>>
  /\ m_write_queue = <<>>

(***************************************************************************)
(* C5. write_request never flushes: for any queue contents it sends only   *)
(* its WriteRequest RPC, no MultiWriteUpdate, and leaves the queue (and    *)
(* what the service has received) unchanged.                               *)
(***************************************************************************)
C5_WriteRequestNoFlush ==
  [][call'.op = "write_request" =>
       /\ Len(call'.rpcs) = 1
       /\ call'.rpcs[1].method = "WriteRequest"
       /\ m_write_queue' = m_write_queue
       /\ delivered' = delivered]_vars

\* C5 witness: write_request returned with updates still queued.
C5_Witness ==
  /\ call.op = "write_request"
  /\ Len(m_write_queue) >= 2

(***************************************************************************)
(* C6 as stated: every public operation sends at most one RPC per call,   *)
(* for any state of the write queue; here on the calls made with updates   *)
(* queued, where the batch a flush sends is never empty.                   *)
(***************************************************************************)
C6_AtMostOneRpc ==
  [][(call'.op \notin {"none", "~RemoteIndex"} /\ m_write_queue # <<>>) =>
       Len(call'.rpcs) <= 1]_vars

(***************************************************************************)
(* C6 amended: every public operation sends at most two RPCs per call: at  *)
(* most one MultiWriteUpdate batch, then at most one RPC of its own.       *)
(* write_request, transaction_request and transaction_cursor send exactly  *)
(* their own RPC; write_update sends at most the batch; the seven flushing *)
(* operations end with their own RPC.                                      *)
(***************************************************************************)
C6_AtMostTwoRpcs ==
  call.op \notin {"none", "~RemoteIndex"} =>
    /\ Len(call.rpcs) <= 2
    /\ Cardinality(BatchPositions(call.rpcs)) <= 1
    /\ Cardinality(OwnPositions(call)) <= 1
    /\ BatchPositions(call.rpcs) \cup OwnPositions(call) = 1..Len(call.rpcs)
    /\ \A i \in BatchPositions(call.rpcs), j \in OwnPositions(call) : i < j
    /\ call.op \in {"write_request", "transaction_request", "transaction_cursor"}
         => Len(call.rpcs) = 1 /\ OwnPositions(call) = {1}
    /\ call.op = "write_update" => OwnPositions(call) = {}
    /\ call.op \in FlushFirstOps => OwnPositions(call) = {Len(call.rpcs)}

\* C6 witness: one call sent two RPCs, a batch with queued updates and then
\* its own request.
C6_Witness ==
  /\ call.op = "num_levels"
  /\ Len(call.rpcs) = 2
  /\ IsBatch(call.rpcs[1])
  /\ call.rpcs[1].request.write_updates # <<>>
  /\ call.rpcs[2].method = "NumLevelsRequest"

(***************************************************************************)
(* C7. Destroying an instance whose queue is non-empty sends one final     *)
(* batch carrying all remaining queued updates, in insertion order, and    *)
(* only then is the instance gone.                                         *)
(***************************************************************************)
C7_DestructorFlushes ==
  [][(call'.op = "~RemoteIndex" /\ m_write_queue # <<>>) =>
       /\ call'.rpcs = <<Batch(m_write_queue)>>
       /\ delivered' = written
       /\ m_write_queue' = <<>>
       /\ ~alive']_vars

\* C7 witness: the instance was destroyed with several updates queued.
C7_Witness ==
  /\ ~alive
  /\ call.op = "~RemoteIndex"
  /\ Len(call.rpcs) = 1
  /\ Len(call.rpcs[1].request.write_updates) >= 3
  /\ delivered = written

(***************************************************************************)
(* Vocabulary of the parse_url properties: what a URL is made of, read off *)
(* the URL itself.                                                         *)
(***************************************************************************)
Called == parsed.threw # "not called"

HasScheme(str) == Len(str) >= Len(Scheme) /\ SubSeq(str, 1, Len(Scheme)) = Scheme

Remainder(str) == SubSeq(str, Len(Scheme) + 1, Len(str))

Positions(str, c) == {i \in 1..Len(str) : str[i] = c}

SegmentCount(str) == Cardinality(Positions(str, "/")) + 1

First(S) == CHOOSE i \in S : \A j \in S : i <= j

IsNumeral(str) == str # <<>> /\ \A i \in 1..Len(str) : str[i] \in DOMAIN DigitValue

RECURSIVE Pow10(_)
Pow10(n) == IF n = 0 THEN 1 ELSE 10 * Pow10(n - 1)

\* The number a decimal numeral denotes: each digit weighted by its place.
RECURSIVE PlaceSum(_, _)
PlaceSum(str, i) ==
  IF i > Len(str) THEN 0
  ELSE DigitValue[str[i]] * Pow10(Len(str) - i) + PlaceSum(str, i + 1)

Address(hostname, port, routing_key, name) ==
  [threw |-> "none",
   assigned |-> {"hostname", "port", "exchange", "platefile_name"},
   hostname |-> hostname, port |-> port,
   exchange |-> routing_key, platefile_name |-> name]

(***************************************************************************)
(* C8. Address field mapping: for pf://<routing_key>/<platefile_name>      *)
(* parse_url yields localhost, 5672, the routing key and the platefile     *)
(* name; for pf://<host>[:<port>]/<routing_key>/<platefile_name> it yields *)
(* the host, the port the numeral denotes (5672 when there is no port),    *)
(* the routing key and the platefile name.                                 *)
(***************************************************************************)
C8_AddressFieldMapping ==
  (Called /\ HasScheme(url)) =>
    LET rest    == Remainder(url)
        slashes == Positions(rest, "/")
    IN
    /\ Cardinality(slashes) = 1 =>
         LET s == First(slashes) IN
         parsed = Address(localhost, 5672,
                          SubSeq(rest, 1, s - 1), SubSeq(rest, s + 1, Len(rest)))
    /\ Cardinality(slashes) = 2 =>
         LET s1       == First(slashes)
             s2       == First(slashes \ {s1})
             hostport == SubSeq(rest, 1, s1 - 1)
             key      == SubSeq(rest, s1 + 1, s2 - 1)
             name     == SubSeq(rest, s2 + 1, Len(rest))
             colons   == Positions(hostport, ":")
         IN
         /\ colons = {} => parsed = Address(hostport, 5672, key, name)
         /\ Cardinality(colons) = 1 =>
              LET c    == First(colons)
                  host == SubSeq(hostport, 1, c - 1)
                  port == SubSeq(hostport, c + 1, Len(hostport))
              IN IsNumeral(port) =>
                   parsed = Address(host, PlaceSum(port, 1), key, name)

\* C8 witness: a three-segment URL with a host and a two-digit port parsed.
C8_Witness ==
  /\ Called
  /\ HasScheme(url)
  /\ SegmentCount(Remainder(url)) = 3
  /\ parsed.threw = "none"
  /\ parsed.hostname = <<"a">>
  /\ parsed.port = 77

(***************************************************************************)
(* C9. Address rejection: parse_url fails with its address error           *)
(* (vw::ArgumentErr) for every URL that does not start with pf:// and for  *)
(* every URL whose remainder after pf:// splits on / into a number of      *)
(* segments other than 2 or 3, and it has then set none of the address     *)
(* fields.                                                                 *)
(***************************************************************************)
C9_AddressRejection ==
  (Called /\ (~HasScheme(url) \/ SegmentCount(Remainder(url)) \notin {2, 3})) =>
    /\ parsed.threw = "ArgumentErr"
    /\ parsed.assigned = {}

\* C9 witness: a URL with the scheme and four segments was rejected.
C9_Witness ==
  /\ Called
  /\ HasScheme(url)
  /\ SegmentCount(Remainder(url)) = 4
  /\ parsed.threw = "ArgumentErr"

(***************************************************************************)
(* C10 as stated: for a three-segment URL whose host part holds a port     *)
(* that is no integer (pf://host:abc/ex/p, pf://host:/ex/p), parse_url     *)
(* fails with the same error kind it raises for a wrong segment count.     *)
(***************************************************************************)
C10_BadPortIsAddressError ==
  (Called /\ HasScheme(url) /\ SegmentCount(Remainder(url)) = 3) =>
    LET rest     == Remainder(url)
        hostport == SubSeq(rest, 1, First(Positions(rest, "/")) - 1)
        colons   == Positions(hostport, ":")
    IN Cardinality(colons) = 1 =>
         LET port == SubSeq(hostport, First(colons) + 1, Len(hostport))
         IN ~IsNumeral(port) => parsed.threw = "ArgumentErr"

\* C10: the state the claim excludes, a parse that ended in
\* boost::bad_lexical_cast with some of the address fields already set.
C10_BadLexicalCast ==
  /\ Called
  /\ parsed.threw = "bad_lexical_cast"
  /\ parsed.assigned = {"exchange", "platefile_name", "hostname"}

(***************************************************************************)
(* C14. transaction_cursor requires no flush: for any queue contents it    *)
(* sends only its TransactionCursor RPC, no batched write-update RPC, and  *)
(* leaves the write queue (and what the service has received) unchanged.   *)
(***************************************************************************)
C14_TransactionCursorNoFlush ==
  [][call'.op = "transaction_cursor" =>
       /\ Len(call'.rpcs) = 1
       /\ call'.rpcs[1].method = "TransactionCursor"
       /\ m_write_queue' = m_write_queue
       /\ delivered' = delivered]_vars

\* C14 witness: transaction_cursor returned with updates still queued.
C14_Witness ==
  /\ call.op = "transaction_cursor"
  /\ Len(m_write_queue) >= 2
  /\ delivered # written

(***************************************************************************)
(* C19. Queue bound: between calls the write queue holds at most 9         *)
(* entries; inside a call it holds at most 10, the peak being the queue of *)
(* a write_update right after its push, and no other operation adds to the *)
(* queue.                                                                  *)
(***************************************************************************)
C19_QueueBound ==
  [][/\ Len(m_write_queue) <= max_pending_write_updates - 1
     /\ Len(m_write_queue') <= max_pending_write_updates - 1
     /\ call'.op = "write_update" =>
          Len(m_write_queue) + 1 <= max_pending_write_updates
     /\ call'.op # "write_update" => Len(m_write_queue') <= Len(m_write_queue)]_vars

\* C19 witness: a write_update returned without flushing and left 9 entries
\* queued, the most a queue holds between calls.
C19_Witness ==
  /\ call.op = "write_update"
  /\ call.rpcs = <<>>
  /\ Len(m_write_queue) = max_pending_write_updates - 1
  /\ m_write_queue = written

(***************************************************************************)
(* C20. Exactly-once, in-order delivery: what the service has received in  *)
(* MultiWriteUpdate batches, in send order, followed by what is still      *)
(* queued, is at every moment the sequence of updates passed to            *)
(* write_update; once the instance is destroyed the batches alone are that *)
(* sequence.  No update is dropped, duplicated or reordered.               *)
(***************************************************************************)
C20_ExactlyOnceInOrder ==
  /\ delivered \o m_write_queue = written
  /\ ~alive => delivered = written /\ m_write_queue = <<>>

\* C20 witness: an instance was destroyed after several batches, the last
\* one sent by the destructor.
C20_Witness ==
  /\ ~alive
  /\ call.op = "~RemoteIndex"
  /\ Len(written) > max_pending_write_updates
  /\ Len(BatchUpdates(call.rpcs)) >= 1
  /\ Len(BatchUpdates(call.rpcs)) < Len(written) - max_pending_write_updates

\* The constructors and the accessors, by the name their call is logged under.
Constructors == {"RemoteIndex(url)", "RemoteIndex(url, index_header_info)"}

Accessors == {"version", "platefile_name", "index_header", "tile_size",
              "tile_filetype", "pixel_format", "channel_type"}

\* The platefile id a request carries is pid; a batch carries it in each
\* of its updates.
Carries(rpc, pid) ==
  IF rpc.method = "MultiWriteUpdate"
    THEN \A j \in DOMAIN rpc.request.write_updates :
           rpc.request.write_updates[j].platefile_id = pid
    ELSE rpc.request.platefile_id = pid

(***************************************************************************)
(* C11. platefile_id is immutable once assigned: a constructor stores the  *)
(* id of the service's reply, no public operation changes it afterwards,   *)
(* and every request the instance sends afterwards carries that id.        *)
(***************************************************************************)
C11_PlatefileIdImmutable ==
  [][/\ (call'.op \in Constructors /\ alive') =>
          m_platefile_id' = result'.reply.index_header.platefile_id
     /\ alive =>
          /\ m_platefile_id' = m_platefile_id
          /\ \A i \in DOMAIN call'.rpcs : Carries(call'.rpcs[i], m_platefile_id)]_vars

\* C11 witness: an instance created with id 2 has sent a batch of its
\* updates and a request of its own.
C11_Witness ==
  /\ alive
  /\ m_platefile_id = 2
  /\ call.op = "transaction_failed"
  /\ Len(call.rpcs) = 2
  /\ Len(BatchUpdates(call.rpcs)) = MaxSessionWrites
  /\ \A i \in DOMAIN call.rpcs : Carries(call.rpcs[i], 2)

(***************************************************************************)
(* C15. A malformed URL fails fast: when parse_url does not accept the URL *)
(* given to either constructor, the constructor ends before a connection   *)
(* is created, before a reply queue is bound and before an OpenRequest or  *)
(* CreateRequest is sent; no instance comes to exist.                      *)
(***************************************************************************)
C15_MalformedUrlFailsFast ==
  [][(call'.op \in Constructors /\ parsed'.threw # "none") =>
       /\ transport' = <<>>
       /\ call'.rpcs = <<>>
       /\ ~alive'
       /\ Unconstructed']_vars

\* C15 witness: the creating constructor was given a URL without the scheme
\* at position 0.
C15_Witness ==
  /\ call.op = "RemoteIndex(url, index_header_info)"
  /\ parsed.threw = "ArgumentErr"
  /\ ~HasScheme(url)
  /\ transport = <<>>
  /\ ~alive

(***************************************************************************)
(* C16. Create always sends a service-assignable id: whatever template the *)
(* caller supplies, the one RPC of the creating constructor is a           *)
(* CreateRequest whose index header has platefile_id 0 and every other     *)
(* field as in the template.                                               *)
(***************************************************************************)
C16_CreateSendsIdZero ==
  [][(call'.op = "RemoteIndex(url, index_header_info)" /\ parsed'.threw = "none") =>
       /\ Len(call'.rpcs) = 1
       /\ call'.rpcs[1].method = "CreateRequest"
       /\ call'.rpcs[1].request.plate_name = parsed'.platefile_name
       /\ call'.rpcs[1].request.index_header.platefile_id = 0
       /\ \A f \in DOMAIN call'.index_header_info \ {"platefile_id"} :
            call'.rpcs[1].request.index_header[f] = call'.index_header_info[f]]_vars

\* C16 witness: an index was created from a template with platefile_id 2.
C16_Witness ==
  /\ call.op = "RemoteIndex(url, index_header_info)"
  /\ alive
  /\ call.index_header_info.platefile_id = 2
  /\ call.rpcs[1].request.index_header.platefile_id = 0

\* What each accessor is to return: the cached member.
Cached(op) ==
  CASE op = "version"        -> m_index_header.version
    [] op = "platefile_name" -> m_full_plate_filename
    [] op = "index_header"   -> m_index_header
    [] op = "tile_size"      -> m_index_header.tile_size
    [] op = "tile_filetype"  -> m_index_header.tile_filetype
    [] op = "pixel_format"   -> m_index_header.pixel_format
    [] op = "channel_type"   -> m_index_header.channel_type

(***************************************************************************)
(* C17. Header caching: after a successful open or create the index        *)
(* header, platefile id and short and full names of the instance are those *)
(* of the service's reply (for create the reply replaces the template      *)
(* wholesale); no later operation changes them; and each accessor returns  *)
(* the cached value, sends no RPC and leaves the write queue alone.        *)
(***************************************************************************)
C17_HeaderCaching ==
  [][/\ (call'.op \in Constructors /\ alive') =>
          /\ m_index_header' = result'.reply.index_header
          /\ m_platefile_id' = result'.reply.index_header.platefile_id
          /\ m_short_plate_filename' = result'.reply.short_plate_filename
          /\ m_full_plate_filename' = result'.reply.full_plate_filename
     /\ alive =>
          UNCHANGED <<m_index_header, m_short_plate_filename, m_full_plate_filename>>
     /\ call'.op \in Accessors =>
          /\ result' = [of |-> call'.op, value |-> Cached(call'.op)]
          /\ call'.rpcs = <<>>
          /\ m_write_queue' = m_write_queue
          /\ delivered' = delivered]_vars

\* C17 witness: tile_filetype() returned the file type of the reply while
\* updates were queued.
C17_Witness ==
  /\ call.op = "tile_filetype"
  /\ result = [of |-> "tile_filetype", value |-> "tif"]
  /\ m_index_header = ServiceHeader(2, "tif")
  /\ Len(m_write_queue) = MaxSessionWrites

C13_CommitOrFailOnlyWhenOpen ==
  [][call'.op \in {"transaction_complete", "transaction_failed"} =>
       transactions[call'.rpcs[Len(call'.rpcs)].request.transaction_id] = "OPEN"]_vars

\* C13: a TransactionFailed request was sent for a transaction that was
\* COMMITTED already.
C13_TerminalIdDriven ==
  /\ call.op = "transaction_failed"
  /\ call.rpcs[Len(call.rpcs)].method = "TransactionFailed"
  /\ transactions[call.rpcs[Len(call.rpcs)].request.transaction_id] = "COMMITTED"

(***************************************************************************)
(* C18. multi_read_request returns one (transaction id, record) pair per   *)
(* transaction id of the reply, the i-th id with the i-th record, in the   *)
(* order of the reply: nothing is re-sorted, filtered or deduplicated.     *)
(***************************************************************************)
C18_MultiReadPairsInOrder ==
  [][call'.op = "multi_read_request" =>
       /\ Len(result'.value) = Len(result'.reply.transaction_ids)
       /\ \A i \in DOMAIN result'.value :
            /\ result'.value[i].first = result'.reply.transaction_ids[i]
            /\ result'.value[i].second = result'.reply.index_records[i]]_vars

\* C18 witness: a reply listing transaction 2 before transaction 1, with
\* different records, came back as it was.
C18_Witness ==
  /\ call.op = "multi_read_request"
  /\ result.reply.transaction_ids = <<2, 1>>
  /\ result.reply.index_records[1] # result.reply.index_records[2]
  /\ Len(result.value) = 2
  /\ result.value[1].first = 2

\* The call that ran last had an RPC fail.
Failed(c) == "failed" \in DOMAIN c

\* The elements of a sequence.
Elements(seq) == {seq[i] : i \in DOMAIN seq}

\* The updates of the batches that failed.
LostUpdates(batches) == UNION {Elements(batches[i]) : i \in DOMAIN batches}

(***************************************************************************)
(* C21. No retries and no silent recovery: when the batched flush RPC at   *)
(* the start of a flushing operation fails, the caller gets the failure,   *)
(* the operation's own RPC is not sent, and the call sends no RPC a second *)
(* time: the one RPC of the call is the batch of what was queued.          *)
(***************************************************************************)
C21_NoRetryOnFailedFlush ==
  [][(Failed(call') /\ call'.op \in FlushFirstOps /\ call'.failed = 1) =>
       /\ call'.threw # "none"
       /\ call'.rpcs = <<Batch(m_write_queue)>>
       /\ \A i \in DOMAIN call'.rpcs : call'.rpcs[i].method # OwnMethod(call'.op)]_vars

\* C21 witness: transaction_complete found two updates queued, its flush
\* failed, and the call ended with that one batch sent.
C21_Witness ==
  /\ Failed(call)
  /\ call.op = "transaction_complete"
  /\ call.threw = "TransportError"
  /\ Len(call.rpcs) = 1
  /\ Len(BatchUpdates(call.rpcs)) = 2
  /\ Elements(BatchUpdates(call.rpcs)) \subseteq LostUpdates(lost)

(***************************************************************************)
(* C22. flush_write_queue drains the queue before it sends the batch:      *)
(* after any call that flushed, whether the MultiWriteUpdate succeeded or  *)
(* failed, the write queue is empty, and no update of a failed batch is in *)
(* the queue or in any batch sent afterwards by a flush, an operation or   *)
(* the destructor.                                                         *)
(***************************************************************************)
C22_FailedBatchNeverResent ==
  [][/\ BatchPositions(call'.rpcs) # {} => m_write_queue' = <<>>
     /\ Elements(BatchUpdates(call'.rpcs)) \cap LostUpdates(lost) = {}
     /\ Elements(m_write_queue') \cap LostUpdates(lost') = {}]_vars

\* C22 witness: after a batch of two updates failed, later updates were
\* queued and the destructor sent them alone.
C22_Witness ==
  /\ Len(lost) = 1
  /\ Len(lost[1]) = 2
  /\ call.op = "~RemoteIndex"
  /\ ~Failed(call)
  /\ Len(BatchUpdates(call.rpcs)) >= 1
  /\ m_write_queue = <<>>
  /\ Elements(BatchUpdates(call.rpcs)) \cap LostUpdates(lost) = {}

\* No thread is inside a call.
Quiescent == \A t \in Threads : threads[t].pc = "idle"

\* How often update occurs in a sequence of updates.
Occurrences(seq, update) == Cardinality({i \in DOMAIN seq : seq[i] = update})

(***************************************************************************)
(* C23. With every call wrapped in one external mutex, for every           *)
(* interleaving of the calls of two threads: whenever no call is in        *)
(* progress the batches sent, in order, followed by the queue are the      *)
(* updates whose write_update has returned; no update is sent twice; when  *)
(* a read_request sends its ReadRequest every such update has been sent    *)
(* and the queue is empty; and the process does not crash.  (Without the   *)
(* mutex the states of C23_Witness, C23_SentTwice and C23_Lost are         *)
(* reachable.)                                                             *)
(***************************************************************************)
C23_SerializedCallsKeepOrder ==
  [][mutex.used =>
       /\ alive'
       /\ Quiescent' => delivered' \o m_write_queue' = written'
       /\ \A update \in Elements(delivered') : Occurrences(delivered', update) = 1
       /\ \A t \in Threads :
            (threads[t].pc = "own" /\ threads'[t].pc = "return") =>
              /\ threads'[t].behind = {}
              /\ m_write_queue = <<>>
              /\ Elements(written) \subseteq Elements(delivered)]_vars

\* C23 witness: without the mutex, a thread has sent its ReadRequest while
\* an update whose write_update had returned was still in the queue.
C23_Witness ==
  /\ ~mutex.used
  /\ \E t \in Threads :
       /\ threads[t].op = "read_request"
       /\ threads[t].pc = "return"
       /\ threads[t].behind # {}
       /\ threads[t].behind \subseteq Elements(written) \cap Elements(m_write_queue)

\* Without the mutex, no call in progress: one update was sent twice.
C23_SentTwice ==
  /\ ~mutex.used
  /\ alive
  /\ Quiescent
  /\ \E update \in Elements(written) : Occurrences(delivered, update) = 2

\* Without the mutex, no call in progress: an update whose write_update
\* returned was never sent and is not queued.
C23_Lost ==
  /\ ~mutex.used
  /\ alive
  /\ Quiescent
  /\ \E update \in Elements(written) :
       update \notin Elements(delivered) \cup Elements(m_write_queue)

=============================================================================
